---- MODULE Spec2Model ----
(***************************************************************************)
(* Exponential smoothing (single, double, Holt-Winters) and the error      *)
(* metrics of theAlgorithmist/Holt-Winters, src/src/exp-smoothing.ts and   *)
(* src/src/errors.ts.                                                      *)
(*                                                                         *)
(* Numbers.  A JavaScript number is modelled as an extended rational       *)
(* <<p, q>> in lowest terms with q >= 0:  q > 0 is the real p/q,           *)
(* <<1,0>> is Infinity, <<-1,0>> is -Infinity and <<0,0>> is NaN.          *)
(* Arithmetic on finite values is exact (rounding of IEEE doubles is not   *)
(* modelled, -0 is 0); division by zero, NaN propagation and comparisons   *)
(* with NaN follow the language.  `undefined` (an array hole or a read     *)
(* past the end) is the empty tuple and becomes NaN in arithmetic.         *)
(*                                                                         *)
(* Arrays.  A JavaScript array is a sequence; index k of the source is     *)
(* position k+1.  Arrays that are returned by reference live in `heap`.    *)
(***************************************************************************)
EXTENDS Integers, Sequences, FiniteSets, TLC

\* ------------------------------------------------------------------ bounds
\* longest data array
MaxLen == 4
\* seasonLength ranges over -1..MaxSeason
MaxSeason == 2
\* numPredictions ranges over -1..MaxPred
MaxPred == 2
\* longest array handed to the error metrics
MaxErrLen == 2
\* iterations after which a loop counter is no longer advanced in the model
IterCap == MaxLen + 2
\* calls of holtWintersPartitioned in an aliasing scenario
MaxCalls == 3
\* elements a caller appends to returned arrays in an aliasing scenario
MaxPush == 2

\* ----------------------------------------------------------------- numbers
\* The operators below bind their arguments with a quantifier over a
\* one-element set, so that an argument is evaluated once however often the
\* body uses it; Only takes the result out of the one-element set.
Only(S) == CHOOSE r \in S : TRUE

Abs(x) == IF x < 0 THEN -x ELSE x

Sign(x) == IF x > 0 THEN 1 ELSE IF x < 0 THEN -1 ELSE 0

RECURSIVE GCD(_, _)
GCD(a, b) == IF b = 0 THEN a ELSE Only({GCD(b, r) : r \in {a % b}})

\* p/q in lowest terms with a non-negative denominator
Norm(p, q) ==
  IF q = 0 THEN <<Sign(p), 0>>
  ELSE Only({<<Sign(q) * (p \div g), Abs(q) \div g>> : g \in {GCD(Abs(p), Abs(q))}})

Num(k) == <<k, 1>>
Zero == Num(0)
One == Num(1)
Half == <<1, 2>>
MinusOne == Num(-1)
NaN == <<0, 0>>
Infinity == <<1, 0>>
Undefined == <<>>
\* null / an absent argument: a value that is no array of numbers
Null == <<<<0, 0, 0>>>>

isNaN(x) == \E a \in {x} : a = Undefined \/ a = NaN
ToNumber(x) == Only({IF a = Undefined THEN NaN ELSE a : a \in {x}})
IsFinite(x) == \E a \in {x} : a # Undefined /\ a[2] > 0

Add(x, y) ==
  Only({IF a[2] = 0 /\ b[2] = 0
        THEN (IF a = b THEN a ELSE NaN)
        ELSE Norm(a[1] * b[2] + b[1] * a[2], a[2] * b[2])
        : a \in {ToNumber(x)}, b \in {ToNumber(y)}})

Neg(x) == Only({<<-a[1], a[2]>> : a \in {ToNumber(x)}})

Sub(x, y) == Add(x, Neg(y))

Mul(x, y) ==
  Only({Norm(a[1] * b[1], a[2] * b[2]) : a \in {ToNumber(x)}, b \in {ToNumber(y)}})

Div(x, y) ==
  Only({IF a[2] = 0 /\ b[2] = 0 THEN NaN
        ELSE IF b[1] < 0 THEN Norm(-(a[1] * b[2]), a[2] * (-b[1]))
        ELSE Norm(a[1] * b[2], a[2] * b[1])
        : a \in {ToNumber(x)}, b \in {ToNumber(y)}})

\* x < y, false when either side is NaN
Lt(x, y) ==
  \E a \in {ToNumber(x)}, b \in {ToNumber(y)} :
    /\ a # NaN /\ b # NaN
    /\ IF a[2] = 0 /\ b[2] = 0 THEN a[1] < b[1]
       ELSE a[1] * b[2] < b[1] * a[2]

Eq(x, y) == \E a \in {ToNumber(x)}, b \in {ToNumber(y)} : a # NaN /\ a = b
Le(x, y) == Lt(x, y) \/ Eq(x, y)
Gt(x, y) == Lt(y, x)
Ge(x, y) == Le(y, x)

\* Math.floor
Floor(x) == Only({IF a[2] = 0 THEN a ELSE Num(a[1] \div a[2]) : a \in {ToNumber(x)}})

\* i % m of the source for i >= 0 (the sign of the result follows i), m # 0
Rem(i, m) == i % Abs(m)

\* ------------------------------------------------------------------ arrays
\* arr[k], undefined outside the array
Get(arr, k) ==
  Only({IF q >= 0 /\ q < Len(a) THEN a[q + 1] ELSE Undefined : a \in {arr}, q \in {k}})

\* arr[k] = v, the array growing (with holes) when k is past its end
Set(arr, k, v) ==
  Only({IF q < Len(a) THEN [a EXCEPT ![q + 1] = w]
        ELSE [p \in 1..(q + 1) |->
                IF p <= Len(a) THEN a[p] ELSE IF p = q + 1 THEN w ELSE Undefined]
        : a \in {arr}, q \in {k}, w \in {v}})

\* arr.push(v)
Push(arr, v) == Append(arr, v)

RECURSIVE SeqsUpTo(_, _)
SeqsUpTo(S, k) ==
  IF k = 0 THEN {<<>>}
  ELSE LET shorter == SeqsUpTo(S, k - 1)
       IN  shorter \cup {Append(s, v) : s \in {t \in shorter : Len(t) = k - 1}, v \in S}

\* the data arrays of the model: every array of at most MaxLen samples
Samples == {Num(1), Num(3)}
DataArrays == SeqsUpTo(Samples, MaxLen)
\* smoothing weights handed in: NaN, below, at and inside the bounds, above
Weights == {NaN, <<-1, 2>>, Zero, Half, One, <<3, 2>>}

\* ------------------------------------------------------------------- state
VARIABLES
  fn, args, ret,                 \* the last call of a smoothing or error function
  data, alpha, beta, gamma, seasonLength, numPredictions,  \* Holt-Winters arguments
  pc,                            \* position in the running Holt-Winters call
  i, j, trend, numSeasons, seasonals, seasonAverages, smooth,  \* its locals
  predictions, smoothed,         \* its arrays (references into heap)
  heap,                          \* the arrays reachable by reference
  hwRet, hwpRet,                 \* the values the two Holt-Winters functions returned
  reads, uninit,                 \* history: data indices read; a seasonals hole was read
  returned, pushes               \* history: holtWintersPartitioned results; caller appends

pureVars == <<fn, args, ret>>
argVars == <<data, alpha, beta, gamma, seasonLength, numPredictions>>
localVars == <<i, j, trend, numSeasons, seasonals, seasonAverages, smooth, predictions, smoothed>>
histVars == <<reads, uninit, returned, pushes>>
vars == <<pureVars, argVars, pc, localVars, heap, hwRet, hwpRet, histVars>>

n == Len(data)

\* ------------------------------------------------- single, double smoothing
\* mutant: the recurrence smooths the current sample data[k]
RECURSIVE expSmoothLoop_current(_, _, _, _)
expSmoothLoop_current(d, a, sm, k) ==
  IF k < Len(d)
  THEN expSmoothLoop_current(d, a,
         Set(sm, k, Add(Mul(a, Get(d, k)), Mul(Sub(One, a), Get(sm, k - 1)))), k + 1)
  ELSE sm

RECURSIVE expSmoothLoop(_, _, _, _)
expSmoothLoop(d, a, sm, k) ==
  IF k < Len(d)
  THEN expSmoothLoop(d, a,
         Set(sm, k, Add(Mul(a, Get(d, k - 1)), Mul(Sub(One, a), Get(sm, k - 1)))), k + 1)
  ELSE sm

expSmooth(d, a) ==
  IF d = Null THEN <<>>
  ELSE IF Len(d) = 1 THEN <<>>
  ELSE IF isNaN(a) \/ Le(a, Zero) \/ Ge(a, One) THEN <<>>
  ELSE expSmoothLoop(d, a, Set(Set(<<>>, 0, Zero), 1, Get(d, 0)), 2)

\* the loop state is the pair <<smoothed, b>>
RECURSIVE doubleExpSmoothLoop(_, _, _, _, _, _)
doubleExpSmoothLoop(d, a, g, sm, b, k) ==
  IF k < Len(d)
  THEN LET s == Add(Mul(a, Get(d, k)), Mul(Sub(One, a), Add(Get(sm, k - 1), Get(b, k - 1))))
           t == Add(Mul(g, Sub(s, Get(sm, k - 1))), Mul(Sub(One, g), Get(b, k - 1)))
       IN  doubleExpSmoothLoop(d, a, g, Set(sm, k, s), Set(b, k, t), k + 1)
  ELSE sm

\* mutant: the bounds of single smoothing, exclusive at 0 and 1
doubleExpSmooth_exclusive(d, a, g) ==
  IF d = Null \/ Len(d) < 2 THEN <<>>
  ELSE IF isNaN(a) \/ Le(a, Zero) \/ Ge(a, One) THEN <<>>
  ELSE IF isNaN(g) \/ Le(g, Zero) \/ Ge(g, One) THEN <<>>
  ELSE doubleExpSmoothLoop(d, a, g,
         Set(Set(<<>>, 0, Zero), 1, Get(d, 0)),
         Set(Set(<<>>, 0, Zero), 1, Sub(Get(d, 1), Get(d, 0))), 2)

doubleExpSmooth(d, a, g) ==
  IF d = Null \/ Len(d) < 2 THEN <<>>
  ELSE IF isNaN(a) \/ Lt(a, Zero) \/ Gt(a, One) THEN <<>>
  ELSE IF isNaN(g) \/ Lt(g, Zero) \/ Gt(g, One) THEN <<>>
  ELSE doubleExpSmoothLoop(d, a, g,
         Set(Set(<<>>, 0, Zero), 1, Get(d, 0)),
         Set(Set(<<>>, 0, Zero), 1, Sub(Get(d, 1), Get(d, 0))), 2)

\* ----------------------------------------------------------- error metrics
\* mutant: the errors are summed, not their squares
RECURSIVE sumSqErrorLoop_unsquared(_, _, _, _)
sumSqErrorLoop_unsquared(p, a, k, sum) ==
  IF k < Len(p)
  THEN sumSqErrorLoop_unsquared(p, a, k + 1, Add(sum, Sub(Get(p, k), Get(a, k))))
  ELSE sum

RECURSIVE sumSqErrorLoop(_, _, _, _)
sumSqErrorLoop(p, a, k, sum) ==
  IF k < Len(p)
  THEN LET error == Sub(Get(p, k), Get(a, k))
       IN  sumSqErrorLoop(p, a, k + 1, Add(sum, Mul(error, error)))
  ELSE sum

sumSqError(p, a) ==
  IF p = Null \/ Len(p) = 0 THEN MinusOne
  ELSE IF a = Null \/ Len(a) = 0 THEN MinusOne
  ELSE IF Len(p) # Len(a) THEN MinusOne
  ELSE sumSqErrorLoop(p, a, 0, Zero)

mse(p, a) ==
  IF p = Null \/ Len(p) = 0 THEN MinusOne
  ELSE IF a = Null \/ Len(a) = 0 THEN MinusOne
  ELSE IF Len(p) # Len(a) THEN MinusOne
  ELSE Div(sumSqError(p, a), Num(Len(p)))

\* -------------------------------------------- calls of the pure functions
\* args holds the argument list a caller has in hand; a call leaves the name
\* of the function called in fn and the value it returned in ret
CallExpSmooth ==
  /\ Len(args) = 3
  /\ fn' = "expSmooth" /\ ret' = expSmooth(args[1], args[2])
  /\ UNCHANGED <<args, argVars, pc, localVars, heap, hwRet, hwpRet, histVars>>

CallDoubleExpSmooth ==
  /\ Len(args) = 3
  /\ fn' = "doubleExpSmooth" /\ ret' = doubleExpSmooth(args[1], args[2], args[3])
  /\ UNCHANGED <<args, argVars, pc, localVars, heap, hwRet, hwpRet, histVars>>

CallSumSqError ==
  /\ Len(args) = 2
  /\ fn' = "sumSqError" /\ ret' = sumSqError(args[1], args[2])
  /\ UNCHANGED <<args, argVars, pc, localVars, heap, hwRet, hwpRet, histVars>>

CallMse ==
  /\ Len(args) = 2
  /\ fn' = "mse" /\ ret' = mse(args[1], args[2])
  /\ UNCHANGED <<args, argVars, pc, localVars, heap, hwRet, hwpRet, histVars>>

\* ------------------------------------------------------------- holtWinters
\* the locals of a Holt-Winters call before it assigns them
FreshLocals ==
  /\ i = 0 /\ j = 0 /\ trend = Undefined /\ numSeasons = Undefined
  /\ seasonals = <<>> /\ seasonAverages = <<>> /\ smooth = Undefined
  /\ predictions = 0 /\ smoothed = 0

ResetLocals ==
  /\ i' = 0 /\ j' = 0 /\ trend' = Undefined /\ numSeasons' = Undefined
  /\ seasonals' = <<>> /\ seasonAverages' = <<>> /\ smooth' = Undefined
  /\ predictions' = 0 /\ smoothed' = 0

\* the guards of lines 122-130
hw_Invalid ==
  \/ data = Null
  \/ n < 3
  \/ isNaN(alpha) \/ Lt(alpha, Zero) \/ Gt(alpha, One)
  \/ isNaN(beta) \/ Lt(beta, Zero) \/ Gt(beta, One)
  \/ isNaN(gamma) \/ Lt(gamma, Zero) \/ Gt(gamma, One)

\* entry: validation; invalid input returns a new empty array
HW_Entry ==
  /\ pc = "hw_entry"
  /\ IF hw_Invalid
     THEN /\ heap' = Append(heap, <<>>)
          /\ hwRet' = Len(heap) + 1
          /\ pc' = "hw_done"
     ELSE /\ pc' = "hw_trend"
          /\ UNCHANGED <<heap, hwRet>>
  /\ UNCHANGED <<pureVars, argVars, localVars, hwpRet, histVars>>

\* mutant: the lookahead is one sample short of a season
RECURSIVE hw_TrendSum_short(_, _, _)
hw_TrendSum_short(k, sum, rd) ==
  IF k < seasonLength
  THEN hw_TrendSum_short(k + 1,
         Add(sum, Div(Sub(Get(data, k + seasonLength - 1), Get(data, k)), Num(seasonLength))),
         rd \cup {k + seasonLength - 1, k})
  ELSE [sum |-> sum, reads |-> rd]

\* the loop of lines 136-138
RECURSIVE hw_TrendSum(_, _, _)
hw_TrendSum(k, sum, rd) ==
  IF k < seasonLength
  THEN hw_TrendSum(k + 1,
         Add(sum, Div(Sub(Get(data, k + seasonLength), Get(data, k)), Num(seasonLength))),
         rd \cup {k + seasonLength, k})
  ELSE [sum |-> sum, reads |-> rd]

\* initial trend, and the number of seasons
HW_Trend ==
  /\ pc = "hw_trend"
  /\ LET loop == hw_TrendSum(0, Zero, reads)
     IN  /\ trend' = Div(loop.sum, Num(seasonLength))
         /\ reads' = loop.reads
  /\ seasonals' = <<>>
  /\ seasonAverages' = <<>>
  /\ numSeasons' = Floor(Div(Num(n), Num(seasonLength)))
  /\ j' = 0
  /\ pc' = "hw_averages"
  /\ UNCHANGED <<pureVars, argVars, i, smooth, predictions, smoothed, heap, hwRet, hwpRet,
                 uninit, returned, pushes>>

\* the inner loop of lines 152-154 for season jj
RECURSIVE hw_SeasonSum(_, _, _, _)
hw_SeasonSum(jj, k, sum, rd) ==
  IF k < seasonLength * jj + seasonLength
  THEN hw_SeasonSum(jj, k + 1, Add(sum, Get(data, k)), rd \cup {k})
  ELSE [sum |-> sum, reads |-> rd]

\* one iteration of the seasonal-averages loop. Past IterCap iterations the
\* model keeps j and seasonAverages as they are: the loop goes on, and every
\* further iteration has the same guard and pushes one more element.
HW_Average ==
  /\ pc = "hw_averages"
  /\ Lt(Num(j), numSeasons)
  /\ IF j < IterCap
     THEN LET loop == hw_SeasonSum(j, seasonLength * j, Zero, reads)
          IN  /\ seasonAverages' = Push(seasonAverages, Div(loop.sum, Num(seasonLength)))
              /\ reads' = loop.reads
              /\ j' = j + 1
     ELSE UNCHANGED <<seasonAverages, reads, j>>
  /\ UNCHANGED <<pureVars, argVars, pc, i, trend, numSeasons, seasonals, smooth, predictions,
                 smoothed, heap, hwRet, hwpRet, uninit, returned, pushes>>

\* the inner loop of lines 163-165 for offset k
RECURSIVE hw_OffsetSum(_, _, _, _)
hw_OffsetSum(k, jj, sum, rd) ==
  IF Lt(Num(jj), numSeasons)
  THEN hw_OffsetSum(k, jj + 1,
         Add(sum, Sub(Get(data, seasonLength * jj + k), Get(seasonAverages, jj))),
         rd \cup {seasonLength * jj + k})
  ELSE [sum |-> sum, reads |-> rd]

\* the loop of lines 160-168
RECURSIVE hw_InitialSeasonals(_, _, _)
hw_InitialSeasonals(k, s, rd) ==
  IF k < seasonLength
  THEN LET loop == hw_OffsetSum(k, 0, Zero, rd)
       IN  hw_InitialSeasonals(k + 1, Set(s, k, Div(loop.sum, numSeasons)), loop.reads)
  ELSE [seasonals |-> s, reads |-> rd]

\* the averages loop is over: initial seasonal indices, and the output array
HW_Seasonals ==
  /\ pc = "hw_averages"
  /\ ~Lt(Num(j), numSeasons)
  /\ LET loop == hw_InitialSeasonals(0, seasonals, reads)
     IN  /\ seasonals' = loop.seasonals
         /\ reads' = loop.reads
  /\ heap' = Append(heap, <<>>)
  /\ predictions' = Len(heap) + 1
  /\ i' = 0
  /\ pc' = "hw_main"
  /\ UNCHANGED <<pureVars, argVars, j, trend, numSeasons, seasonAverages, smooth, smoothed,
                 hwRet, hwpRet, uninit, returned, pushes>>

\* the value the in-sample branch (lines 191-199) leaves in smooth
hw_Smooth ==
  Add(Mul(alpha, Sub(Get(data, i), Get(seasonals, Rem(i, seasonLength)))),
      Mul(Sub(One, alpha), Add(smooth, trend)))

hw_Trend(sm) == Add(Mul(beta, Sub(sm, smooth)), Mul(Sub(One, beta), trend))

hw_Seasonal(sm) ==
  Add(Mul(gamma, Sub(Get(data, i), sm)),
      Mul(Sub(One, gamma), Get(seasonals, Rem(i, seasonLength))))

\* mutant: the forecast horizon counted from 0
hw_Forecast_horizon0 ==
  LET m == i - n
  IN  Add(Add(smooth, Mul(Num(m), trend)), Get(seasonals, Rem(i, seasonLength)))

\* the value the forecast branch (lines 186-187) pushes
hw_Forecast ==
  LET m == i - n + 1
  IN  Add(Add(smooth, Mul(Num(m), trend)), Get(seasonals, Rem(i, seasonLength)))

\* the condition of the main loop, line 175
hw_MainContinues == i < n + numPredictions

\* one iteration of the main loop, lines 175-201
HW_Main ==
  /\ pc = "hw_main"
  /\ hw_MainContinues
  /\ IF i = 0
     THEN /\ smooth' = Get(data, 0)
          /\ heap' = [heap EXCEPT ![predictions] = Push(@, Get(data, 0))]
          /\ reads' = reads \cup {0}
          /\ UNCHANGED <<trend, seasonals, uninit>>
     ELSE IF i >= n
     THEN /\ heap' = [heap EXCEPT ![predictions] = Push(@, hw_Forecast)]
          /\ uninit' = (uninit \/ Get(seasonals, Rem(i, seasonLength)) = Undefined)
          /\ UNCHANGED <<smooth, trend, seasonals, reads>>
     ELSE LET sm == hw_Smooth
              tr == hw_Trend(sm)
              se == hw_Seasonal(sm)
          IN  /\ smooth' = sm
              /\ trend' = tr
              /\ seasonals' = Set(seasonals, Rem(i, seasonLength), se)
              /\ heap' = [heap EXCEPT ![predictions] = Push(@, Add(Add(sm, tr), se))]
              /\ reads' = reads \cup {i}
              /\ uninit' = (uninit \/ Get(seasonals, Rem(i, seasonLength)) = Undefined)
  /\ i' = i + 1
  /\ UNCHANGED <<pureVars, argVars, pc, j, numSeasons, seasonAverages, predictions, smoothed,
                 hwRet, hwpRet, returned, pushes>>

\* the main loop is over: return predictions
HW_Return ==
  /\ pc = "hw_main"
  /\ ~hw_MainContinues
  /\ hwRet' = predictions
  /\ pc' = "hw_done"
  /\ ResetLocals
  /\ UNCHANGED <<pureVars, argVars, heap, hwpRet, histVars>>


\* -------------------------------------------------- holtWintersPartitioned
\* the module-level object of lines 206-209; its two arrays are heap[1], heap[2]
EMPTY_PARTITION == [smoothed |-> 1, predictions |-> 2]

\* the guards of lines 221-229
hwp_Invalid ==
  \/ data = Null
  \/ n < 3
  \/ isNaN(alpha) \/ Lt(alpha, Zero) \/ Gt(alpha, One)
  \/ isNaN(beta) \/ Lt(beta, Zero) \/ Gt(beta, One)
  \/ isNaN(gamma) \/ Lt(gamma, Zero) \/ Gt(gamma, One)

\* mutant: invalid input returns a new empty partition
HWP_Entry_fresh ==
  /\ pc = "hwp_entry"
  /\ IF hwp_Invalid
     THEN LET r == [smoothed |-> Len(heap) + 1, predictions |-> Len(heap) + 2]
          IN  /\ heap' = Append(Append(heap, <<>>), <<>>)
              /\ hwpRet' = r
              /\ returned' = Append(returned, [valid |-> FALSE, value |-> r])
              /\ pc' = "hwp_done"
     ELSE /\ pc' = "hwp_trend"
          /\ UNCHANGED <<heap, hwpRet, returned>>
  /\ UNCHANGED <<pureVars, argVars, localVars, hwRet, reads, uninit, pushes>>

\* entry: validation; invalid input returns EMPTY_PARTITION itself
HWP_Entry ==
  /\ pc = "hwp_entry"
  /\ IF hwp_Invalid
     THEN /\ hwpRet' = EMPTY_PARTITION
          /\ returned' = Append(returned, [valid |-> FALSE, value |-> EMPTY_PARTITION])
          /\ pc' = "hwp_done"
     ELSE /\ pc' = "hwp_trend"
          /\ UNCHANGED <<hwpRet, returned>>
  /\ UNCHANGED <<pureVars, argVars, localVars, heap, hwRet, reads, uninit, pushes>>

\* the loop of lines 235-237
RECURSIVE hwp_TrendSum(_, _, _)
hwp_TrendSum(k, sum, rd) ==
  IF k < seasonLength
  THEN hwp_TrendSum(k + 1,
         Add(sum, Div(Sub(Get(data, k + seasonLength), Get(data, k)), Num(seasonLength))),
         rd \cup {k + seasonLength, k})
  ELSE [sum |-> sum, reads |-> rd]

\* initial trend, and the number of seasons
HWP_Trend ==
  /\ pc = "hwp_trend"
  /\ LET loop == hwp_TrendSum(0, Zero, reads)
     IN  /\ trend' = Div(loop.sum, Num(seasonLength))
         /\ reads' = loop.reads
  /\ seasonals' = <<>>
  /\ seasonAverages' = <<>>
  /\ numSeasons' = Floor(Div(Num(n), Num(seasonLength)))
  /\ j' = 0
  /\ pc' = "hwp_averages"
  /\ UNCHANGED <<pureVars, argVars, i, smooth, predictions, smoothed, heap, hwRet, hwpRet,
                 uninit, returned, pushes>>

\* the inner loop of lines 251-253 for season jj
RECURSIVE hwp_SeasonSum(_, _, _, _)
hwp_SeasonSum(jj, k, sum, rd) ==
  IF k < seasonLength * jj + seasonLength
  THEN hwp_SeasonSum(jj, k + 1, Add(sum, Get(data, k)), rd \cup {k})
  ELSE [sum |-> sum, reads |-> rd]

\* one iteration of the seasonal-averages loop. Past IterCap iterations the
\* model keeps j and seasonAverages as they are: the loop goes on, and every
\* further iteration has the same guard and pushes one more element.
HWP_Average ==
  /\ pc = "hwp_averages"
  /\ Lt(Num(j), numSeasons)
  /\ IF j < IterCap
     THEN LET loop == hwp_SeasonSum(j, seasonLength * j, Zero, reads)
          IN  /\ seasonAverages' = Push(seasonAverages, Div(loop.sum, Num(seasonLength)))
              /\ reads' = loop.reads
              /\ j' = j + 1
     ELSE UNCHANGED <<seasonAverages, reads, j>>
  /\ UNCHANGED <<pureVars, argVars, pc, i, trend, numSeasons, seasonals, smooth, predictions,
                 smoothed, heap, hwRet, hwpRet, uninit, returned, pushes>>

\* the inner loop of lines 262-264 for offset k
RECURSIVE hwp_OffsetSum(_, _, _, _)
hwp_OffsetSum(k, jj, sum, rd) ==
  IF Lt(Num(jj), numSeasons)
  THEN hwp_OffsetSum(k, jj + 1,
         Add(sum, Sub(Get(data, seasonLength * jj + k), Get(seasonAverages, jj))),
         rd \cup {seasonLength * jj + k})
  ELSE [sum |-> sum, reads |-> rd]

\* the loop of lines 259-267
RECURSIVE hwp_InitialSeasonals(_, _, _)
hwp_InitialSeasonals(k, s, rd) ==
  IF k < seasonLength
  THEN LET loop == hwp_OffsetSum(k, 0, Zero, rd)
       IN  hwp_InitialSeasonals(k + 1, Set(s, k, Div(loop.sum, numSeasons)), loop.reads)
  ELSE [seasonals |-> s, reads |-> rd]

\* the averages loop is over: initial seasonal indices, and the output arrays
HWP_Seasonals ==
  /\ pc = "hwp_averages"
  /\ ~Lt(Num(j), numSeasons)
  /\ LET loop == hwp_InitialSeasonals(0, seasonals, reads)
     IN  /\ seasonals' = loop.seasonals
         /\ reads' = loop.reads
  /\ heap' = Append(Append(heap, <<>>), <<>>)
  /\ smoothed' = Len(heap) + 1
  /\ predictions' = Len(heap) + 2
  /\ i' = 0
  /\ pc' = "hwp_main"
  /\ UNCHANGED <<pureVars, argVars, j, trend, numSeasons, seasonAverages, smooth,
                 hwRet, hwpRet, uninit, returned, pushes>>

\* the value the in-sample branch (lines 291-299) leaves in smooth
hwp_Smooth ==
  Add(Mul(alpha, Sub(Get(data, i), Get(seasonals, Rem(i, seasonLength)))),
      Mul(Sub(One, alpha), Add(smooth, trend)))

hwp_Trend(sm) == Add(Mul(beta, Sub(sm, smooth)), Mul(Sub(One, beta), trend))

hwp_Seasonal(sm) ==
  Add(Mul(gamma, Sub(Get(data, i), sm)),
      Mul(Sub(One, gamma), Get(seasonals, Rem(i, seasonLength))))

\* mutant: the forecast horizon counted from 0
hwp_Forecast_horizon0 ==
  LET m == i - n
  IN  Add(Add(smooth, Mul(Num(m), trend)), Get(seasonals, Rem(i, seasonLength)))

\* the value the forecast branch (lines 286-287) pushes
hwp_Forecast ==
  LET m == i - n + 1
  IN  Add(Add(smooth, Mul(Num(m), trend)), Get(seasonals, Rem(i, seasonLength)))

\* mutant: the main loop runs one iteration too many
hwp_MainContinues_inclusive == i <= n + numPredictions

\* the condition of the main loop, line 275
hwp_MainContinues == i < n + numPredictions

\* one iteration of the main loop, lines 275-301
HWP_Main ==
  /\ pc = "hwp_main"
  /\ hwp_MainContinues
  /\ IF i = 0
     THEN /\ smooth' = Get(data, 0)
          /\ heap' = [heap EXCEPT ![smoothed] = Push(@, Get(data, 0))]
          /\ reads' = reads \cup {0}
          /\ UNCHANGED <<trend, seasonals, uninit>>
     ELSE IF i >= n
     THEN /\ heap' = [heap EXCEPT ![predictions] = Push(@, hwp_Forecast)]
          /\ uninit' = (uninit \/ Get(seasonals, Rem(i, seasonLength)) = Undefined)
          /\ UNCHANGED <<smooth, trend, seasonals, reads>>
     ELSE LET sm == hwp_Smooth
              tr == hwp_Trend(sm)
              se == hwp_Seasonal(sm)
          IN  /\ smooth' = sm
              /\ trend' = tr
              /\ seasonals' = Set(seasonals, Rem(i, seasonLength), se)
              /\ heap' = [heap EXCEPT ![smoothed] = Push(@, Add(Add(sm, tr), se))]
              /\ reads' = reads \cup {i}
              /\ uninit' = (uninit \/ Get(seasonals, Rem(i, seasonLength)) = Undefined)
  /\ i' = i + 1
  /\ UNCHANGED <<pureVars, argVars, pc, j, numSeasons, seasonAverages, predictions, smoothed,
                 hwRet, hwpRet, returned, pushes>>

\* the main loop is over: return a new object holding the two arrays
HWP_Return ==
  /\ pc = "hwp_main"
  /\ ~hwp_MainContinues
  /\ LET r == [smoothed |-> smoothed, predictions |-> predictions]
     IN  /\ hwpRet' = r
         /\ returned' = Append(returned, [valid |-> TRUE, value |-> r])
  /\ pc' = "hwp_done"
  /\ ResetLocals
  /\ UNCHANGED <<pureVars, argVars, heap, hwRet, reads, uninit, pushes>>

\* ------------------------------------------------------------- the callers
NoPartition == [smoothed |-> 0, predictions |-> 0]

\* the seasonLength and numPredictions values handed in
SeasonLengths == -1..MaxSeason
PredictionCounts == -1..MaxPred

InitPure == fn = "none" /\ args = <<>> /\ ret = <<>>

ValidWeights == {Zero, Half, One}
\* the weight triples handed in: all valid ones, and those with one weight
\* that is NaN or out of range
WeightTriples ==
  {t \in Weights \X Weights \X Weights : Cardinality({k \in 1..3 : t[k] \notin ValidWeights}) <= 1}

InitHeap ==
  /\ heap = <<<<>>, <<>>>>
  /\ hwRet = 0 /\ hwpRet = NoPartition
  /\ reads = {} /\ uninit = FALSE /\ returned = <<>> /\ pushes = <<>>

\* a caller hands one argument list to holtWinters ...
Init ==
  /\ InitPure
  /\ data \in DataArrays \cup {Null}
  /\ \E t \in WeightTriples : alpha = t[1] /\ beta = t[2] /\ gamma = t[3]
  /\ seasonLength \in SeasonLengths
  /\ numPredictions \in PredictionCounts
  /\ pc = "hw_entry"
  /\ FreshLocals
  /\ InitHeap

\* ... and, when that has returned, the same arguments to holtWintersPartitioned
Caller_SameArguments ==
  /\ pc = "hw_done"
  /\ pc' = "hwp_entry"
  /\ reads' = {} /\ uninit' = FALSE
  /\ UNCHANGED <<pureVars, argVars, localVars, heap, hwRet, hwpRet, returned, pushes>>

Next ==
  \/ HW_Entry \/ HW_Trend \/ HW_Average \/ HW_Seasonals \/ HW_Main \/ HW_Return
  \/ Caller_SameArguments
  \/ HWP_Entry \/ HWP_Trend \/ HWP_Average \/ HWP_Seasonals \/ HWP_Main \/ HWP_Return

Spec == Init /\ [][Next]_vars

\* termination is checked on calls of either function with shortest valid or
\* absent data, a valid or NaN alpha, and every seasonLength and numPredictions
InitTerm ==
  /\ InitPure
  /\ data \in {d \in DataArrays : Len(d) = 3} \cup {Null}
  /\ alpha \in {NaN, Half} /\ beta = Half /\ gamma = Half
  /\ seasonLength \in SeasonLengths
  /\ numPredictions \in PredictionCounts
  /\ pc \in {"hw_entry", "hwp_entry"}
  /\ FreshLocals
  /\ InitHeap

\* a running call always takes its next step
FairSpec == InitTerm /\ [][Next]_vars /\ WF_vars(Next)

InitIdle ==
  /\ data = <<>> /\ alpha = NaN /\ beta = NaN /\ gamma = NaN
  /\ seasonLength = 1 /\ numPredictions = 0
  /\ pc = "idle"
  /\ FreshLocals
  /\ InitHeap

\* a caller holds <<data, alpha, gamma>> and calls the smoothing functions
InitSmooth ==
  /\ fn = "none" /\ ret = <<>>
  /\ args \in (DataArrays \cup {Null}) \X Weights \X Weights
  /\ InitIdle

NextSmooth == CallExpSmooth \/ CallDoubleExpSmooth

SpecSmooth == InitSmooth /\ [][NextSmooth]_vars

\* the arrays handed to the error metrics
ErrSamples == {Num(v) : v \in -1..1}
ErrArrays == SeqsUpTo(ErrSamples, MaxErrLen) \cup {Null}

\* a caller holds <<predictions, actual>> and calls the error metrics
InitErr ==
  /\ fn = "none" /\ ret = <<>>
  /\ args \in ErrArrays \X ErrArrays
  /\ InitIdle

NextErr == CallSumSqError \/ CallMse

SpecErr == InitErr /\ [][NextErr]_vars

\* the argument lists of an aliasing scenario: absent, too short and valid
\* data, an invalid and a valid alpha
AliasData == {Null, <<Num(1), Num(3)>>, <<Num(1), Num(3), Num(1)>>}
AliasAlpha == {NaN, Half}
\* what a caller appends to an array it was handed
AliasValue == Num(7)

\* a caller calls holtWintersPartitioned again
Caller_Call ==
  /\ pc \in {"idle", "hwp_done"}
  /\ Len(returned) < MaxCalls
  /\ data' \in AliasData
  /\ alpha' \in AliasAlpha
  /\ beta' = Half /\ gamma' = Half
  /\ seasonLength' \in 0..1
  /\ numPredictions' \in 0..1
  /\ reads' = {} /\ uninit' = FALSE
  /\ pc' = "hwp_entry"
  /\ UNCHANGED <<pureVars, localVars, heap, hwRet, hwpRet, returned, pushes>>

\* a caller appends to an array of a result it was handed earlier
Caller_Push ==
  /\ pc = "hwp_done"
  /\ Len(pushes) < MaxPush
  /\ \E k \in 1..Len(returned), f \in {"smoothed", "predictions"} :
       /\ heap' = [heap EXCEPT ![returned[k].value[f]] = Push(@, AliasValue)]
       /\ pushes' = Append(pushes, [call |-> k, field |-> f, value |-> AliasValue])
  /\ UNCHANGED <<pureVars, argVars, pc, localVars, hwRet, hwpRet, reads, uninit, returned>>

NextAlias ==
  \/ Caller_Call \/ Caller_Push
  \/ HWP_Entry \/ HWP_Trend \/ HWP_Average \/ HWP_Seasonals \/ HWP_Main \/ HWP_Return

InitAlias == InitPure /\ InitIdle

SpecAlias == InitAlias /\ [][NextAlias]_vars

\* ------------------------------------------------------------------ claims
\* x is a number in [0,1]
InUnit(x) == ~isNaN(x) /\ Le(Zero, x) /\ Le(x, One)

\* the arguments pass the validation the Holt-Winters contract states
ValidInput == data # Null /\ n >= 3 /\ InUnit(alpha) /\ InUnit(beta) /\ InUnit(gamma)

Elements(arr) == {arr[k] : k \in 1..Len(arr)}

\* C1: for valid input, positive seasonLength and non-negative numPredictions,
\* smoothed followed by predictions of holtWintersPartitioned is, element by
\* element, the array holtWinters returned for the same arguments.
C1_PartitionConcat ==
  (pc = "hwp_done" /\ ValidInput /\ seasonLength >= 1 /\ numPredictions >= 0)
    => heap[hwpRet.smoothed] \o heap[hwpRet.predictions] = heap[hwRet]

C1_Witness ==
  /\ pc = "hwp_done" /\ ValidInput /\ seasonLength = 2 /\ n = 4 /\ numPredictions = 2
  /\ Len(heap[hwpRet.predictions]) = 2
  /\ IsFinite(heap[hwRet][n + 2])
  /\ heap[hwRet][n + 2] # heap[hwRet][n + 1]

\* C2: for valid input and non-negative numPredictions holtWinters returns
\* n + numPredictions elements, and holtWintersPartitioned returns smoothed of
\* length n and predictions of length numPredictions.
C2_Lengths ==
  /\ (pc = "hw_done" /\ ValidInput /\ numPredictions >= 0)
       => Len(heap[hwRet]) = n + numPredictions
  /\ (pc = "hwp_done" /\ ValidInput /\ numPredictions >= 0)
       => /\ Len(heap[hwpRet.smoothed]) = n
          /\ Len(heap[hwpRet.predictions]) = numPredictions

C2_Witness ==
  /\ pc = "hwp_done" /\ ValidInput /\ seasonLength = 1 /\ numPredictions = 0 /\ n = 3
  /\ heap[hwpRet.predictions] = <<>>
  /\ Len(heap[hwpRet.smoothed]) = 3
  /\ Len(heap[hwRet]) = 3

\* the data handed to the last call of a smoothing function is an array of
\* at least two samples
TwoOrMore == args[1] # Null /\ Len(args[1]) >= 2

\* C3: expSmooth returns the empty array whenever data is absent, empty or
\* has one element, whatever alpha is.
C3_EmptyOnShortData ==
  (fn = "expSmooth" /\ (args[1] = Null \/ Len(args[1]) <= 1)) => ret = <<>>

WithLast(d, v) == [d EXCEPT ![Len(d)] = v]

\* C5: for data of length n >= 2 and 0 < alpha < 1 expSmooth returns n
\* elements, output[0] = 0, output[1] = data[0] and
\* output[k] = alpha*data[k-1] + (1-alpha)*output[k-1] for k in 2..n-1;
\* the last sample data[n-1] has no influence on the output.
C5_ExpSmoothRecurrence ==
  (fn = "expSmooth" /\ TwoOrMore /\ Lt(Zero, args[2]) /\ Lt(args[2], One))
    => LET d == args[1]
           a == args[2]
       IN  /\ Len(ret) = Len(d)
           /\ ret[1] = Zero
           /\ ret[2] = d[1]
           /\ \A k \in 2..(Len(d) - 1) :
                ret[k + 1] = Add(Mul(a, d[k]), Mul(Sub(One, a), ret[k]))
           /\ \A v \in Samples \cup {Num(9)} : expSmooth(WithLast(d, v), a) = ret

C5_Witness ==
  /\ fn = "expSmooth" /\ TwoOrMore /\ args[2] = Half
  /\ args[1] = <<Num(1), Num(3), Num(3), Num(1)>>
  /\ ret = <<Zero, Num(1), Num(2), <<5, 2>>>>

\* the pair handed to the last call of an error metric is invalid
InvalidPair ==
  \/ args[1] = Null \/ args[2] = Null
  \/ Len(args[1]) = 0 \/ Len(args[2]) = 0
  \/ Len(args[1]) # Len(args[2])

\* C6: sumSqError and mse return -1 exactly on an invalid pair (an absent or
\* empty array, or different lengths); on a valid pair both are >= 0 and mse
\* is sumSqError divided by the length.
C6_ErrorSentinel ==
  (fn \in {"sumSqError", "mse"})
    => /\ (ret = MinusOne <=> InvalidPair)
       /\ ~InvalidPair => Ge(ret, Zero)
       /\ (fn = "mse" /\ ~InvalidPair)
            => ret = Div(sumSqError(args[1], args[2]), Num(Len(args[1])))

C6_Witness ==
  /\ fn = "mse" /\ ~InvalidPair
  /\ Len(args[1]) = 2
  /\ ret = <<5, 2>>

\* C7: every invalid call of holtWintersPartitioned returns EMPTY_PARTITION
\* itself, so what a caller appended to an array of one invalid result is in
\* that array of every later invalid result; the arrays of a valid result are
\* new: they are not the sentinel's and not those of another result.
C7_SharedSentinel ==
  /\ \A k \in 1..Len(returned) :
       ~returned[k].valid => returned[k].value = EMPTY_PARTITION
  /\ \A q \in 1..Len(pushes), k \in 1..Len(returned) :
       (~returned[pushes[q].call].valid /\ ~returned[k].valid /\ k > pushes[q].call)
         => pushes[q].value \in Elements(heap[returned[k].value[pushes[q].field]])
  /\ \A k \in 1..Len(returned) :
       returned[k].valid
         => LET r == returned[k].value
            IN  /\ r.smoothed \notin {EMPTY_PARTITION.smoothed, EMPTY_PARTITION.predictions}
                /\ r.predictions \notin {EMPTY_PARTITION.smoothed, EMPTY_PARTITION.predictions}
                /\ r.smoothed # r.predictions
                /\ \A m \in 1..Len(returned) :
                     (m # k /\ returned[m].valid)
                       => {r.smoothed, r.predictions}
                            \cap {returned[m].value.smoothed, returned[m].value.predictions} = {}

C7_Witness ==
  /\ pc = "hwp_done" /\ Len(returned) = 3
  /\ ~returned[1].valid /\ returned[2].valid /\ ~returned[3].valid
  /\ Len(pushes) >= 1 /\ pushes[1].call = 1 /\ pushes[1].field = "smoothed"
  /\ hwpRet = returned[3].value
  /\ AliasValue \in Elements(heap[hwpRet.smoothed])

\* a forecast step of either function is about to run
InForecast == pc \in {"hw_main", "hwp_main"} /\ i >= n /\ i < n + numPredictions

\* the forecasts emitted so far, by forecast position n, n+1, ...
Forecasts ==
  IF pc = "hw_main" THEN SubSeq(heap[predictions], n + 1, Len(heap[predictions]))
  ELSE heap[predictions]

\* C8 (step): a main-loop step with i >= n leaves smooth, trend and seasonals
\* as they are and emits (smooth + m*trend) + seasonals[i % seasonLength],
\* m = i - n + 1.
C8_ForecastStep ==
  InForecast
    => /\ smooth' = smooth /\ trend' = trend /\ seasonals' = seasonals
       /\ Len(heap'[predictions]) = Len(heap[predictions]) + 1
       /\ heap'[predictions][Len(heap'[predictions])] =
            Add(Add(smooth, Mul(Num(i - n + 1), trend)), Get(seasonals, Rem(i, seasonLength)))

\* C8 (consequence): forecasts seasonLength positions apart differ by
\* seasonLength * trend (NaN counted as a value equal to itself).
C8_ForecastPeriodic ==
  (pc \in {"hw_main", "hwp_main"} /\ seasonLength >= 1)
    => \A k \in 1..Len(Forecasts) :
         k + seasonLength <= Len(Forecasts)
           => Sub(Forecasts[k + seasonLength], Forecasts[k]) = Mul(Num(seasonLength), trend)

C9_ReadsInBounds ==
  /\ (pc \in {"hw_done", "hwp_done"} /\ ValidInput /\ seasonLength >= 1)
       => ((reads \subseteq 0..(n - 1) /\ ~uninit) <=> 2 * seasonLength <= n)
  /\ (pc \in {"hw_averages", "hwp_averages"} /\ ValidInput /\ seasonLength >= 1
        /\ 2 * seasonLength > n)
       => \E k \in reads : k >= n

C9_Witness ==
  /\ pc = "hwp_done" /\ ValidInput /\ seasonLength = 2 /\ n = 3
  /\ 3 \in reads
  /\ isNaN(heap[hwpRet.smoothed][2])

\* the loops of a running call are within the iteration bounds its arguments
\* give them: at most n seasons, at most n + numPredictions main iterations
LoopsBounded ==
  /\ pc \in {"hw_averages", "hwp_averages"} => j <= n
  /\ pc \in {"hw_main", "hwp_main"} => i <= IF n + numPredictions > 0 THEN n + numPredictions ELSE 0

\* C10: every call returns after a bounded number of loop iterations:
\* holtWinters and holtWintersPartitioned, once entered, stay within their
\* loop bounds and reach their return for every argument list, seasonLength = 0
\* and negative values included.
C10_EveryCallReturns ==
  /\ []LoopsBounded
  /\ (pc = "hw_entry") ~> (pc = "hw_done")
  /\ (pc = "hwp_entry") ~> (pc = "hwp_done")

====
